---- MODULE Spec2Model ----
(***************************************************************************)
(* Boltzmann wealth model whose money lives in an ERC20 contract           *)
(* (src/stablecoin/model.py, src/stablecoin/abi.py).                       *)
(*                                                                         *)
(* Ledger amounts are counted in units of 5 * 10^17 base units, so that    *)
(* the source's 10**18 is the number 2 here: a balance of 1 is half a      *)
(* token, which is what the "amt < XFER_AMOUNT" branch of MoneyAgent.step  *)
(* is about.  Wealths (balance / 10**18) and the Gini coefficient are      *)
(* exact rationals <<numerator, denominator>>; the rounding of Python      *)
(* floats is not modelled.                                                 *)
(***************************************************************************)
EXTENDS Integers, Sequences, FiniteSets, TLC

\* ------------------------------------------------------------ bounds
\* the simulation: num_agents <= MaxAgents on a grid of at most
\* MaxWidth x MaxHeight and at most MaxCells cells, run for at most MaxTicks
\* ticks in all
MaxAgents == 2
MaxWidth == 2
MaxHeight == 2
MaxCells == 4
MaxTicks == 2
\* the metric alone: populations of at most MaxPopulation agents with
\* balances of at most MaxBalance units
MaxPopulation == 4
MaxBalance == 4

\* ------------------------------------------------- program constants
XFER_AMOUNT == 2
\* an initial balance of one token and a half
INITIAL_BALANCE_OneAndHalf == XFER_AMOUNT + 1
INITIAL_BALANCE == 2
WEI_PER_TOKEN == 2

ADMIN == "0x0c7c"
MINTER == "0xa47d"
NoAddress == "0x0000"

None == <<>>

\* --------------------------------------------------------- rationals
RECURSIVE Gcd(_, _)
Gcd(a, b) == IF b = 0 THEN a ELSE Gcd(b, a % b)

Abs(n) == IF n < 0 THEN -n ELSE n

\* n / d in lowest terms with a positive denominator (d # 0)
Rat(n, d) ==
    LET g == Gcd(Abs(n), Abs(d))
        s == IF d < 0 THEN -1 ELSE 1
    IN  <<(s * n) \div g, (s * d) \div g>>

RInt(n) == <<n, 1>>
RAdd(p, q) == Rat(p[1] * q[2] + q[1] * p[2], p[2] * q[2])
RSub(p, q) == Rat(p[1] * q[2] - q[1] * p[2], p[2] * q[2])
RMul(p, q) == Rat(p[1] * q[1], p[2] * q[2])
RDiv(p, q) == Rat(p[1] * q[2], p[2] * q[1])
RLeq(p, q) == p[1] * q[2] <= q[1] * p[2]
RIsZero(p) == p[1] = 0

\* --------------------------------------------------- metrics (pure)
\* MoneyAgent.wealth: the balance in tokens
wealth(bal) == Rat(bal, WEI_PER_TOKEN)

\* an insertion that keeps the list in descending order
RECURSIVE Insert_Descending(_, _)
Insert_Descending(s, v) ==
    IF s = <<>> THEN <<v>>
    ELSE IF RLeq(Head(s), v) THEN <<v>> \o s
    ELSE <<Head(s)>> \o Insert_Descending(Tail(s), v)

RECURSIVE Insert(_, _)
Insert(s, v) ==
    IF s = <<>> THEN <<v>>
    ELSE IF RLeq(v, Head(s)) THEN <<v>> \o s
    ELSE <<Head(s)>> \o Insert(Tail(s), v)

\* the wealths left in schedule order
sorted_Unsorted(s) == s

\* Python's sorted(): ascending
RECURSIVE sorted(_)
sorted(s) == IF s = <<>> THEN <<>> ELSE Insert(sorted(Tail(s)), Head(s))

\* Python's sum() over a list
RECURSIVE sum(_)
sum(s) == IF s = <<>> THEN RInt(0) ELSE RAdd(Head(s), sum(Tail(s)))

\* sum(xi * (N - i) for i, xi in enumerate(x)); k is 1-based here, i = k - 1
RECURSIVE WeightedSum(_, _, _)
WeightedSum(x, N, k) ==
    IF k > Len(x) THEN RInt(0)
    ELSE RAdd(RMul(x[k], RInt(N - (k - 1))), WeightedSum(x, N, k + 1))

\* compute_gini with the "1 / N" term of the result left out
compute_gini_NoInvN(agent_wealths, N) ==
    LET x == sorted(agent_wealths)
        d == RMul(RInt(N), sum(x))
    IN  IF RIsZero(d)
        THEN [raised |-> TRUE, value |-> RInt(0)]
        ELSE LET B == RDiv(WeightedSum(x, N, 1), d)
             IN  [raised |-> FALSE,
                  value |-> RSub(RInt(1), RMul(RInt(2), B))]

\* compute_gini(model): agent_wealths in schedule order, N = model.num_agents.
\* The division by N * sum(x) is unguarded: Python raises ZeroDivisionError.
compute_gini(agent_wealths, N) ==
    LET x == sorted(agent_wealths)
        d == RMul(RInt(N), sum(x))
    IN  IF RIsZero(d)
        THEN [raised |-> TRUE, value |-> RInt(0)]
        ELSE LET B == RDiv(WeightedSum(x, N, 1), d)
             IN  [raised |-> FALSE,
                  value |-> RSub(RAdd(RInt(1), RDiv(RInt(1), RInt(N))),
                                 RMul(RInt(2), B))]

\* ------------------------------------------- ledger (the ERC20 contract)
\* a transfer that credits the receiver and leaves the sender's balance alone
transfer_NoDebit(bal, to, amount, caller) ==
    IF bal[caller] < amount
    THEN [reverted |-> TRUE, balanceOf |-> bal]
    ELSE [reverted |-> FALSE, balanceOf |-> [bal EXCEPT ![to] = @ + amount]]

\* transfer(to, amount) from msg.sender = caller: the debit is checked
\* arithmetic (reverts on underflow), the credit follows it.
transfer(bal, to, amount, caller) ==
    IF bal[caller] < amount
    THEN [reverted |-> TRUE, balanceOf |-> bal]
    ELSE [reverted |-> FALSE,
          balanceOf |-> [[bal EXCEPT ![caller] = @ - amount]
                              EXCEPT ![to] = @ + amount]]

\* a mint that counts the supply and credits nobody
mint_NoCredit(mtrs, bal, supply, to, amount, caller) ==
    IF caller \notin mtrs
    THEN [reverted |-> TRUE, balanceOf |-> bal, totalSupply |-> supply]
    ELSE [reverted |-> FALSE, balanceOf |-> bal, totalSupply |-> supply + amount]

\* mint(to, amount): require(minters[msg.sender], "Not a minter")
mint(mtrs, bal, supply, to, amount, caller) ==
    IF caller \notin mtrs
    THEN [reverted |-> TRUE, balanceOf |-> bal, totalSupply |-> supply]
    ELSE [reverted |-> FALSE,
          balanceOf |-> [bal EXCEPT ![to] = @ + amount],
          totalSupply |-> supply + amount]

\* addMinter(minter): require(msg.sender == admin, "Not the Admin!")
addMinter(adm, mtrs, minter, caller) ==
    IF caller # adm
    THEN [reverted |-> TRUE, minters |-> mtrs]
    ELSE [reverted |-> FALSE, minters |-> mtrs \cup {minter}]

\* ------------------------------------------------ grid (mesa MultiGrid)
Cells(w, h) == (0 .. w - 1) \X (0 .. h - 1)

torus_adj(p, w, h) == <<p[1] % w, p[2] % h>>

\* a neighbourhood that keeps the centre cell (include_center=True)
get_neighborhood_WithCenter(p, w, h) ==
    {torus_adj(<<p[1] + dx, p[2] + dy>>, w, h) : dx \in -1 .. 1, dy \in -1 .. 1}

\* get_neighborhood(pos, moore=True, include_center=False) on a torus: the
\* distinct wrapped cells at distance one, without the centre
get_neighborhood(p, w, h) ==
    {torus_adj(<<p[1] + dx, p[2] + dy>>, w, h) : dx \in -1 .. 1, dy \in -1 .. 1}
        \ {p}

place_agent(g, ps, a, p) ==
    [grid |-> [g EXCEPT ![p] = @ \cup {a}], pos |-> [ps EXCEPT ![a] = p]]

remove_agent(g, ps, a) ==
    [grid |-> [g EXCEPT ![ps[a]] = @ \ {a}], pos |-> [ps EXCEPT ![a] = None]]

\* a move that enters the new cell without leaving the old one
move_agent_NoRemove(g, ps, a, p, w, h) ==
    place_agent(g, ps, a, torus_adj(p, w, h))

\* move_agent: wrap the target, leave the old cell, enter the new one
move_agent(g, ps, a, p, w, h) ==
    LET r == remove_agent(g, ps, a)
    IN  place_agent(r.grid, r.pos, a, torus_adj(p, w, h))

\* get_cell_list_contents([pos])
get_cell_list_contents(g, p) == g[p]

\* --------------------------------------------------------------- state
VARIABLES
    num_agents, width, height,                \* constructor arguments
    admin, minters, totalSupply, balanceOf,   \* contract storage
    schedule, steps,                          \* RandomActivation: agents, steps
    pos, grid,                                \* agent.pos, grid cells
    history,                                  \* DataCollector records
    pc, err,                                  \* control point, uncaught exception
    callN, iter, steps0,                      \* run_model frame
    todo, cur, nsteps,                        \* schedule.step frame
    xfer                                      \* the transfer issued by cur's step

vars == <<num_agents, width, height, admin, minters, totalSupply, balanceOf,
          schedule, steps, pos, grid, history, pc, err, callN, iter, steps0,
          todo, cur, nsteps, xfer>>

Wallets == 0 .. num_agents - 1
Agents == {schedule[k] : k \in 1 .. Len(schedule)}

NoAgent == 0 - 1
NoXfer == [from |-> NoAgent, to |-> NoAgent, amount |-> 0, balance |-> 0]

params == <<num_agents, width, height>>
ledger == <<admin, minters, totalSupply, balanceOf>>
space == <<pos, grid>>
runFrame == <<callN, iter, steps0>>
tickFrame == <<todo, cur, nsteps, xfer>>

\* ------------------------------------------------------ agent decisions
\* a step that hands over the whole balance
give_amount_Whole(amt) == amt

\* MoneyAgent.step: give_money(amt) when amt < XFER_AMOUNT, else
\* give_money(XFER_AMOUNT)
give_amount(amt) == IF amt < XFER_AMOUNT THEN amt ELSE XFER_AMOUNT

\* a step that gives XFER_AMOUNT whatever the balance is
step_amount_NoBalanceCheck(amt) == XFER_AMOUNT

\* MoneyAgent.step: the amount handed to give_money, 0 when the balance is
\* zero and give_money is not called ("if amt > 0")
step_amount(amt) == IF amt > 0 THEN give_amount(amt) ELSE 0

\* the occupants of my cell with myself left in (no cellmates.pop)
cellmates_WithSelf(g, ps, a) == get_cell_list_contents(g, ps[a])

\* the agents of the neighbouring cells taken for cellmates (get_neighbors)
cellmates_Neighbors(g, ps, a) ==
    UNION {g[c] : c \in get_neighborhood(ps[a], width, height) \cup {ps[a]}} \ {a}

\* MoneyAgent.give_money: the occupants of my cell, myself excluded
cellmates(g, ps, a) == get_cell_list_contents(g, ps[a]) \ {a}

\* [agent.wealth for agent in model.schedule.agents]
agent_wealths(sched, bal) == [k \in 1 .. Len(sched) |-> wealth(bal[sched[k]])]

\* a collector that keeps the wealths of its first entry and files them again
collect_Cached(hist, sched, bal, N, st) ==
    LET g == compute_gini(agent_wealths(sched, bal), N)
    IN  IF g.raised
        THEN [raised |-> TRUE, history |-> hist]
        ELSE [raised |-> FALSE,
              history |-> Append(hist,
                  [step |-> st, Gini |-> g.value,
                   Wealth |-> IF hist = <<>>
                              THEN [a \in {sched[k] : k \in 1 .. Len(sched)} |->
                                       wealth(bal[a])]
                              ELSE hist[1].Wealth])]

\* DataCollector.collect: the model reporter (Gini) runs first, then one
\* Wealth record per scheduled agent, filed under schedule.steps
collect(hist, sched, bal, N, st) ==
    LET g == compute_gini(agent_wealths(sched, bal), N)
    IN  IF g.raised
        THEN [raised |-> TRUE, history |-> hist]
        ELSE [raised |-> FALSE,
              history |-> Append(hist,
                  [step |-> st, Gini |-> g.value,
                   Wealth |-> [a \in {sched[k] : k \in 1 .. Len(sched)} |->
                                  wealth(bal[a])]])]

\* ---------------------------------------------------------------- Init
\* BoltzmannWealthModelNetwork.__init__ up to the creation of the EVM: an
\* empty torus grid, an empty schedule, an empty collector
Init ==
    /\ num_agents \in 0 .. MaxAgents
    /\ width \in 1 .. MaxWidth
    /\ height \in 1 .. MaxHeight
    /\ width * height <= MaxCells
    /\ admin = NoAddress
    /\ minters = {}
    /\ totalSupply = 0
    /\ balanceOf = [w \in 0 .. num_agents - 1 |-> 0]
    /\ schedule = <<>>
    /\ steps = 0
    /\ pos = [a \in 0 .. num_agents - 1 |-> None]
    /\ grid = [c \in Cells(width, height) |-> {}]
    /\ history = <<>>
    /\ pc = "deploy"
    /\ err = "none"
    /\ callN = 0
    /\ iter = 0
    /\ steps0 = 0
    /\ todo = {}
    /\ cur = NoAgent
    /\ nsteps = [a \in 0 .. num_agents - 1 |-> 0]
    /\ xfer = NoXfer

\* ------------------------------------------------------- construction
\* abi.deploy_and_loan_contract: coin.deploy(caller=ADMIN); the constructor
\* stores msg.sender as admin
Deploy ==
    /\ pc = "deploy"
    /\ admin' = ADMIN
    /\ pc' = "addMinter"
    /\ UNCHANGED <<params, minters, totalSupply, balanceOf, schedule, steps,
                   space, history, err, runFrame, tickFrame>>

\* a registration of the minter sent by the minter itself (caller=MINTER)
AddMinter_ByMinter ==
    /\ pc = "addMinter"
    /\ LET r == addMinter(admin, minters, MINTER, MINTER)
       IN  /\ minters' = r.minters
           /\ pc' = IF r.reverted THEN "error" ELSE "create"
           /\ err' = IF r.reverted THEN "LedgerError" ELSE err
    /\ UNCHANGED <<params, admin, totalSupply, balanceOf, schedule, steps,
                   space, history, runFrame, tickFrame>>

\* abi.deploy_and_loan_contract: coin.addMinter.transact(MINTER, caller=ADMIN)
AddMinter ==
    /\ pc = "addMinter"
    /\ LET r == addMinter(admin, minters, MINTER, ADMIN)
       IN  /\ minters' = r.minters
           /\ pc' = IF r.reverted THEN "error" ELSE "create"
           /\ err' = IF r.reverted THEN "LedgerError" ELSE err
    /\ UNCHANGED <<params, admin, totalSupply, balanceOf, schedule, steps,
                   space, history, runFrame, tickFrame>>

\* __init__, one round of "for i, w in enumerate(wallets)": mint, create the
\* agent, add it to the schedule, place it on a random cell
CreateAgent ==
    /\ pc = "create"
    /\ Len(schedule) < num_agents
    /\ LET i == Len(schedule)
           r == mint(minters, balanceOf, totalSupply, i, INITIAL_BALANCE, MINTER)
       IN  IF r.reverted
           THEN /\ pc' = "error"
                /\ err' = "LedgerError"
                /\ UNCHANGED <<totalSupply, balanceOf, schedule, space>>
           ELSE /\ balanceOf' = r.balanceOf
                /\ totalSupply' = r.totalSupply
                /\ schedule' = Append(schedule, i)
                /\ \E x \in 0 .. width - 1, y \in 0 .. height - 1 :
                      LET pl == place_agent(grid, pos, i, <<x, y>>)
                      IN  grid' = pl.grid /\ pos' = pl.pos
                /\ UNCHANGED <<pc, err>>
    /\ UNCHANGED <<params, admin, minters, steps, history, runFrame, tickFrame>>

\* a constructor that ends without collecting
InitCollect_NoCollect ==
    /\ pc = "create"
    /\ Len(schedule) = num_agents
    /\ pc' = "idle"
    /\ UNCHANGED <<params, ledger, schedule, steps, space, history, err,
                   runFrame, tickFrame>>

\* __init__: self.running = True; self.datacollector.collect(self)
InitCollect ==
    /\ pc = "create"
    /\ Len(schedule) = num_agents
    /\ LET c == collect(history, schedule, balanceOf, num_agents, steps)
       IN  /\ history' = c.history
           /\ pc' = IF c.raised THEN "error" ELSE "idle"
           /\ err' = IF c.raised THEN "ZeroDivisionError" ELSE err
    /\ UNCHANGED <<params, ledger, schedule, steps, space, runFrame, tickFrame>>

\* ---------------------------------------------------------- run_model
\* a caller invokes run_model(n)
RunModel(n) ==
    /\ pc = "idle"
    /\ steps + n <= MaxTicks
    /\ callN' = n
    /\ iter' = 0
    /\ steps0' = steps
    /\ pc' = "run"
    /\ UNCHANGED <<params, ledger, schedule, steps, space, history, err,
                   tickFrame>>

\* a loop that goes round once more than n times
RunIter_OffByOne ==
    /\ pc = "run"
    /\ iter <= callN
    /\ iter' = iter + 1
    /\ todo' = Agents
    /\ nsteps' = [a \in DOMAIN nsteps |-> 0]
    /\ cur' = NoAgent
    /\ xfer' = NoXfer
    /\ pc' = "tick"
    /\ UNCHANGED <<params, ledger, schedule, steps, space, history, err,
                   callN, steps0>>

\* "for _ in range(n)": one more round; self.step() begins with
\* schedule.step(), which shuffles the agents
RunIter ==
    /\ pc = "run"
    /\ iter < callN
    /\ iter' = iter + 1
    /\ todo' = Agents
    /\ nsteps' = [a \in DOMAIN nsteps |-> 0]
    /\ cur' = NoAgent
    /\ xfer' = NoXfer
    /\ pc' = "tick"
    /\ UNCHANGED <<params, ledger, schedule, steps, space, history, err,
                   callN, steps0>>

\* a loop that may be left before range(n) is exhausted
RunReturn_Early ==
    /\ pc = "run"
    /\ pc' = "idle"
    /\ callN' = 0
    /\ iter' = 0
    /\ steps0' = 0
    /\ UNCHANGED <<params, ledger, schedule, steps, space, history, err,
                   tickFrame>>

\* range(n) is exhausted: run_model returns and its frame is gone
RunReturn ==
    /\ pc = "run"
    /\ iter >= callN
    /\ pc' = "idle"
    /\ callN' = 0
    /\ iter' = 0
    /\ steps0' = 0
    /\ UNCHANGED <<params, ledger, schedule, steps, space, history, err,
                   tickFrame>>

\* a move that swallows the failure of random.choice and leaves the agent
\* where it is
AgentMove_SwallowError(a) ==
    /\ pc = "tick"
    /\ a \in todo
    /\ todo' = todo \ {a}
    /\ cur' = a
    /\ nsteps' = [nsteps EXCEPT ![a] = @ + 1]
    /\ xfer' = NoXfer
    /\ LET possible_steps == get_neighborhood(pos[a], width, height)
       IN  IF possible_steps = {}
           THEN UNCHANGED space
           ELSE \E new_position \in possible_steps :
                   LET m == move_agent(grid, pos, a, new_position, width, height)
                   IN  grid' = m.grid /\ pos' = m.pos
    /\ pc' = "give"
    /\ UNCHANGED <<params, ledger, schedule, steps, history, runFrame, err>>

\* ------------------------------------------------------------ one tick
\* schedule.step() takes the next agent of the shuffled list; its step()
\* begins with move()
AgentMove(a) ==
    /\ pc = "tick"
    /\ a \in todo
    /\ todo' = todo \ {a}
    /\ cur' = a
    /\ nsteps' = [nsteps EXCEPT ![a] = @ + 1]
    /\ xfer' = NoXfer
    /\ LET possible_steps == get_neighborhood(pos[a], width, height)
       IN  IF possible_steps = {}
           THEN /\ pc' = "error"
                /\ err' = "IndexError"
                /\ UNCHANGED space
           ELSE /\ \E new_position \in possible_steps :
                      LET m == move_agent(grid, pos, a, new_position, width, height)
                      IN  grid' = m.grid /\ pos' = m.pos
                /\ pc' = "give"
                /\ UNCHANGED err
    /\ UNCHANGED <<params, ledger, schedule, steps, history, runFrame>>

\* the rest of step(): read the balance, then give_money(amount), which
\* transfers to a random cellmate when there is one
AgentGive ==
    /\ pc = "give"
    /\ LET amt == balanceOf[cur]
           mates == cellmates(grid, pos, cur)
           amount == step_amount(amt)
       IN  IF amount = 0
           THEN /\ pc' = "tick"
                /\ UNCHANGED <<balanceOf, xfer, err>>
           ELSE IF cur \notin get_cell_list_contents(grid, pos[cur])
           THEN /\ pc' = "error"
                /\ err' = "ValueError"
                /\ UNCHANGED <<balanceOf, xfer>>
           ELSE IF mates = {}
           THEN /\ pc' = "tick"
                /\ UNCHANGED <<balanceOf, xfer, err>>
           ELSE \E other \in mates :
                   LET r == transfer(balanceOf, other, amount, cur)
                   IN  /\ xfer' = [from |-> cur, to |-> other,
                                   amount |-> amount, balance |-> amt]
                       /\ balanceOf' = r.balanceOf
                       /\ pc' = IF r.reverted THEN "error" ELSE "tick"
                       /\ err' = IF r.reverted THEN "LedgerError" ELSE err
    /\ UNCHANGED <<params, admin, minters, totalSupply, schedule, steps, space,
                   history, runFrame, todo, cur, nsteps>>

\* a tick that collects without waiting for the agents still to step
TickCollect_Early ==
    /\ pc = "tick"
    /\ steps' = steps + 1
    /\ LET c == collect(history, schedule, balanceOf, num_agents, steps + 1)
       IN  /\ history' = c.history
           /\ pc' = IF c.raised THEN "error" ELSE "run"
           /\ err' = IF c.raised THEN "ZeroDivisionError" ELSE err
    /\ cur' = NoAgent
    /\ nsteps' = [a \in DOMAIN nsteps |-> 0]
    /\ xfer' = NoXfer
    /\ UNCHANGED <<params, ledger, schedule, space, runFrame, todo>>

\* schedule.step() has stepped every agent, counts the step and returns (its
\* frame is gone); then BoltzmannWealthModelNetwork.step calls
\* datacollector.collect(self)
TickCollect ==
    /\ pc = "tick"
    /\ todo = {}
    /\ steps' = steps + 1
    /\ LET c == collect(history, schedule, balanceOf, num_agents, steps + 1)
       IN  /\ history' = c.history
           /\ pc' = IF c.raised THEN "error" ELSE "run"
           /\ err' = IF c.raised THEN "ZeroDivisionError" ELSE err
    /\ cur' = NoAgent
    /\ nsteps' = [a \in DOMAIN nsteps |-> 0]
    /\ xfer' = NoXfer
    /\ UNCHANGED <<params, ledger, schedule, space, runFrame, todo>>

Next ==
    \/ Deploy
    \/ AddMinter
    \/ CreateAgent
    \/ InitCollect
    \/ \E n \in 0 .. MaxTicks : RunModel(n)
    \/ RunIter
    \/ RunReturn
    \/ \E a \in 0 .. MaxAgents : AgentMove(a)
    \/ AgentGive
    \/ TickCollect

Spec == Init /\ [][Next]_vars

\* -------------------------------------------- the metric on its own
RECURSIVE SumBalances(_, _)
SumBalances(bal, S) ==
    IF S = {} THEN 0
    ELSE LET a == CHOOSE x \in S : TRUE
         IN  bal[a] + SumBalances(bal, S \ {a})

TotalBalance == SumBalances(balanceOf, DOMAIN balanceOf)

\* a constructed model of any population and any balances, all agents on
\* the one cell of a 1 x 1 grid, about to be measured
GiniInit ==
    /\ num_agents \in 0 .. MaxPopulation
    /\ width = 1
    /\ height = 1
    /\ admin = ADMIN
    /\ minters = {MINTER}
    /\ balanceOf \in [0 .. num_agents - 1 -> 0 .. MaxBalance]
    /\ totalSupply = SumBalances(balanceOf, DOMAIN balanceOf)
    /\ schedule = [k \in 1 .. num_agents |-> k - 1]
    /\ steps = 0
    /\ pos = [a \in 0 .. num_agents - 1 |-> <<0, 0>>]
    /\ grid = [c \in Cells(1, 1) |-> 0 .. num_agents - 1]
    /\ history = <<>>
    /\ pc = "measure"
    /\ err = "none"
    /\ callN = 0
    /\ iter = 0
    /\ steps0 = 0
    /\ todo = {}
    /\ cur = NoAgent
    /\ nsteps = [a \in 0 .. num_agents - 1 |-> 0]
    /\ xfer = NoXfer

\* datacollector.collect(model): compute_gini(model) is evaluated
Measure ==
    /\ pc = "measure"
    /\ LET c == collect(history, schedule, balanceOf, num_agents, steps)
       IN  /\ history' = c.history
           /\ pc' = IF c.raised THEN "error" ELSE "measured"
           /\ err' = IF c.raised THEN "ZeroDivisionError" ELSE err
    /\ UNCHANGED <<params, ledger, schedule, steps, space, runFrame, tickFrame>>

GiniNext == Measure

GiniSpec == GiniInit /\ [][GiniNext]_vars

\* ------------------------------------------------------------- typing
TypeOK ==
    /\ pc \in {"deploy", "addMinter", "create", "idle", "run", "tick", "give",
               "error", "measure", "measured"}
    /\ \A a \in Wallets : balanceOf[a] \in Nat
    /\ todo \subseteq Agents
    /\ cur \in Agents \cup {NoAgent}

MintingDone == pc \notin {"deploy", "addMinter"} /\ Len(schedule) = num_agents

\* ------------------------------------------------------------- claims

\* C1: once construction has minted INITIAL_BALANCE to each of the num_agents
\* wallets, the sum of all agent balances is num_agents * INITIAL_BALANCE, in
\* every state any sequence of agent steps and transfers reaches.
C1_SupplyConserved ==
    MintingDone => TotalBalance = num_agents * INITIAL_BALANCE

\* C1 witness: a transfer has moved money between two wallets
C1_Witness ==
    /\ pc = "tick"
    /\ xfer # NoXfer
    /\ \E a \in Agents : balanceOf[a] = 2 * INITIAL_BALANCE

\* C2: in every state, each agent's position lies inside the width x height
\* grid, the agent is among the occupants of exactly one cell, and that cell
\* is the one its position names.
C2_PositionConsistent ==
    \A a \in Agents :
        /\ pos[a] \in Cells(width, height)
        /\ \A c \in Cells(width, height) : (a \in grid[c]) <=> (c = pos[a])

\* C2 witness: an agent has just moved into an occupied cell of a 2 x 2 grid
C2_Witness ==
    /\ pc = "give"
    /\ width = 2 /\ height = 2
    /\ Cardinality(grid[pos[cur]]) = 2

\* C3: every transfer a step issues has an amount no larger than the sender's
\* balance at the call, so no transfer fails for insufficient balance and no
\* balance is ever below zero.
C3_NoOverdraft ==
    /\ xfer # NoXfer => xfer.amount <= xfer.balance
    /\ err # "LedgerError"
    /\ \A w \in Wallets : balanceOf[w] >= 0

\* C3 witness: an agent has transferred its whole balance, and an agent with
\* nothing left has had its turn without a failure
C3_Witness ==
    /\ pc = "tick"
    /\ xfer # NoXfer
    /\ xfer.amount = xfer.balance
    /\ balanceOf[xfer.from] = 0

\* C4: if an agent is the only occupant of its cell after its move, its give
\* phase changes no balance, its own or any other agent's.
C4_AloneNoTransfer ==
    [][(pc = "give" /\ grid[pos[cur]] = {cur}) => balanceOf' = balanceOf]_vars

\* C4 witness: an agent with money has finished its step alone in its cell
\* while another agent exists
C4_Witness ==
    /\ pc = "tick"
    /\ cur # NoAgent
    /\ num_agents = 2
    /\ grid[pos[cur]] = {cur}
    /\ balanceOf[cur] > 0
    /\ xfer = NoXfer

\* C5: in each tick every agent's step runs exactly once, a step begins only
\* when no other step is in progress, and the metrics of the tick are
\* collected only after all agents have stepped.
C5_EveryAgentOncePerTick ==
    [][/\ \A a \in Agents :
            /\ nsteps'[a] <= 1
            /\ nsteps'[a] > nsteps[a] => pc = "tick"
       /\ (pc \in {"tick", "give"} /\ history' # history) =>
              /\ pc = "tick"
              /\ \A a \in Agents : nsteps[a] = 1]_vars

\* C5 witness: both agents of a two-agent model have stepped and the tick's
\* collection is due
C5_Witness ==
    /\ pc = "tick"
    /\ todo = {}
    /\ num_agents = 2
    /\ \A a \in Agents : nsteps[a] = 1

\* C6: run_model(0) is a no-op: a call run_model(0), made in any state (such
\* as the one an earlier run_model(n) left), returns without changing agent
\* positions, ledger balances or the collected history.
C6_RunZeroNoOp ==
    [][((pc' = "run" /\ callN' = 0) \/ (pc = "run" /\ callN = 0)) =>
           /\ UNCHANGED <<pos, grid, balanceOf, totalSupply, history, steps,
                          schedule>>
           /\ pc' \in {"run", "idle"}]_vars

\* C6 witness: run_model(0) is in progress after an earlier run of one tick
C6_Witness ==
    /\ pc = "run"
    /\ callN = 0
    /\ steps >= 1
    /\ Len(history) = steps + 1

InRun == pc \in {"run", "tick", "give"}

\* the work run_model still has to do: rounds left, then agents left in the
\* round, then phases left in the agent's step
Variant ==
    (callN - iter) * (2 * num_agents + 2)
        + (IF pc = "run" THEN 0
           ELSE 1 + 2 * Cardinality(todo) + (IF pc = "give" THEN 1 ELSE 0))

\* C7: for every n >= 0, run_model(n) returns after exactly n ticks: it
\* returns only when n ticks are complete, a tick begins only when every
\* earlier one is complete (all agents stepped, metrics collected), and every
\* step of a run that meets no error brings it nearer to its return, so no
\* run goes on for ever.
C7_RunModelExactlyNTicks ==
    [][/\ (pc = "run" /\ pc' = "idle") => steps = steps0 + callN
       /\ (pc = "run" /\ pc' = "tick") =>
              /\ todo = {}
              /\ steps = steps0 + iter
              /\ Len(history) = steps + 1
       /\ (InRun /\ pc' \in {"run", "tick", "give"}) =>
              /\ Variant' < Variant
              /\ Variant' >= 0]_vars

\* C7 witness: run_model(n), n >= 1, has completed its n ticks and is about
\* to return
C7_Witness ==
    /\ pc = "run"
    /\ callN >= 1
    /\ iter = callN
    /\ steps = steps0 + callN

AllEqual(W) == \A a \in Wallets : balanceOf[a] = W

OneHoldsAll(W) ==
    \E a \in Wallets :
        /\ balanceOf[a] = W
        /\ \A b \in Wallets \ {a} : balanceOf[b] = 0

\* C8: compute_gini returns 0 for every population of N >= 1 agents that all
\* hold the same wealth W > 0.
C8_UniformGiniZero ==
    (pc # "measure" /\ num_agents >= 1
        /\ \E W \in 1 .. MaxBalance : AllEqual(W)) =>
        /\ pc = "measured"
        /\ history[1].Gini = RInt(0)

\* C8 witness: three agents of wealth 3/2 each have been measured
C8_Witness ==
    /\ pc = "measured"
    /\ num_agents = 3
    /\ AllEqual(3)

\* C9: compute_gini returns 1 - 1/N for every population of N agents in which
\* one agent holds all the wealth (W > 0) and the other N - 1 hold zero.
C9_MaximalGini ==
    (pc # "measure" /\ num_agents >= 1
        /\ \E W \in 1 .. MaxBalance : OneHoldsAll(W)) =>
        /\ pc = "measured"
        /\ history[1].Gini = RSub(RInt(1), Rat(1, num_agents))

\* C9 witness: the first of three agents holds everything and has been measured
C9_Witness ==
    /\ pc = "measured"
    /\ num_agents = 3
    /\ balanceOf[0] = 3
    /\ OneHoldsAll(3)

\* C10: compute_gini on a population whose agents all have zero wealth ends
\* in a defined way, a sentinel value or an error signalled for the undefined
\* metric, not in the exception of an unguarded division.
C10_ZeroWealthPolicy ==
    (pc # "measure" /\ num_agents >= 1 /\ AllEqual(0)) =>
        \/ pc = "measured"
        \/ (pc = "error" /\ err = "UndefinedMetricError")

C12_TransferToCellmate ==
    [][pc = "give" =>
          \/ balanceOf' = balanceOf /\ xfer' = NoXfer
          \/ \E other \in Agents \ {cur} :
                /\ pos[other] = pos[cur]
                /\ pos' = pos
                /\ xfer'.from = cur
                /\ xfer'.to = other
                /\ xfer'.amount > 0
                /\ balanceOf' = [balanceOf EXCEPT ![cur] = @ - xfer'.amount,
                                                  ![other] = @ + xfer'.amount]]_vars

\* C12 witness: on a grid of four cells an agent has just paid the agent it
\* met on the cell it moved to
C12_Witness ==
    /\ pc = "tick"
    /\ width = 2 /\ height = 2
    /\ xfer # NoXfer
    /\ xfer.from = cur
    /\ xfer.to # cur
    /\ pos[xfer.to] = pos[cur]

\* C13: the give phase works on the balance the ledger holds after the move:
\* with a zero balance the step issues no transfer; with a positive balance
\* and at least one cellmate it transfers exactly min(balance, XFER_AMOUNT);
\* so a step lowers the sender's balance by at most XFER_AMOUNT.
C13_GiveAtMostXferAmount ==
    [][pc = "give" =>
          LET amt == balanceOf[cur]
              least == IF amt < XFER_AMOUNT THEN amt ELSE XFER_AMOUNT
              mates == {a \in Agents \ {cur} : pos[a] = pos[cur]}
          IN  /\ amt = 0 => (balanceOf' = balanceOf /\ xfer' = NoXfer)
              /\ (amt > 0 /\ mates # {}) =>
                     /\ xfer'.from = cur
                     /\ xfer'.balance = amt
                     /\ xfer'.amount = least
                     /\ balanceOf'[cur] = amt - least
              /\ balanceOf[cur] - balanceOf'[cur] <= XFER_AMOUNT
              /\ balanceOf'[cur] <= balanceOf[cur]]_vars

\* C13 witness: an agent that held two tokens has given exactly one, and
\* (second witness) a penniless agent has met a cellmate and given nothing
C13_Witness ==
    /\ pc = "tick"
    /\ xfer # NoXfer
    /\ xfer.balance = 2 * XFER_AMOUNT
    /\ xfer.amount = XFER_AMOUNT
    /\ balanceOf[cur] = XFER_AMOUNT

C13_WitnessZero ==
    /\ pc = "tick"
    /\ cur \in Agents
    /\ balanceOf[cur] = 0
    /\ xfer = NoXfer
    /\ \E a \in Agents \ {cur} : pos[a] = pos[cur]

\* the cells horizontally, vertically or diagonally adjacent to p, wrapped at
\* the edges of the torus
MooreWrapped(p) ==
    {q \in Cells(width, height) :
        \E dx \in {0 - 1, 0, 1}, dy \in {0 - 1, 0, 1} :
            /\ q[1] = (p[1] + dx) % width
            /\ q[2] = (p[2] + dy) % height}

\* a step of some agent begins: the scheduler takes it off the agents still
\* to step
StepBegins == pc = "tick" /\ todo' # todo

C15_ErrorPropagates ==
    [][/\ (StepBegins /\ get_neighborhood(pos[cur'], width, height) = {}) =>
             /\ pc' = "error"
             /\ err' = "IndexError"
             /\ UNCHANGED <<ledger, space, history, steps, schedule>>
       /\ (pc = "give" /\ xfer' # NoXfer /\ xfer'.amount > xfer'.balance) =>
             /\ pc' = "error"
             /\ err' = "LedgerError"
             /\ UNCHANGED <<ledger, space, history, steps, schedule>>
       /\ pc = "error" => UNCHANGED vars]_vars

\* C15 witness: the move of the first agent of a tick has failed with a
\* second agent still to step; the tick has no metrics entry and the balances
\* are the ones the tick started with
C15_Witness ==
    /\ pc = "error"
    /\ err = "IndexError"
    /\ num_agents = 2
    /\ cur \in Agents
    /\ nsteps[cur] = 1
    /\ todo # {}
    /\ \A a \in todo : nsteps[a] = 0
    /\ steps = 0
    /\ Len(history) = 1
    /\ \A a \in Agents : balanceOf[a] = INITIAL_BALANCE

\* C16: during construction the contract is deployed by ADMIN, then MINTER is
\* registered by an addMinter call sent by ADMIN, and only then is any mint
\* issued; every mint is sent by MINTER; no mint and no addMinter of
\* initialization fails authorization.
C16_ConstructionOrder ==
    /\ pc = "deploy" => (admin = NoAddress /\ minters = {} /\ totalSupply = 0)
    /\ pc = "addMinter" => (admin = ADMIN /\ minters = {} /\ totalSupply = 0)
    /\ pc \notin {"deploy", "addMinter"} =>
          /\ admin = ADMIN
          /\ minters = {MINTER}
          /\ totalSupply = Len(schedule) * INITIAL_BALANCE
    /\ totalSupply > 0 => (admin = ADMIN /\ MINTER \in minters)
    /\ err # "LedgerError"

\* C16 witness: construction has deployed, registered the minter and minted
\* to two wallets, and has not yet collected
C16_Witness ==
    /\ pc = "create"
    /\ num_agents = 2
    /\ Len(schedule) = 2
    /\ history = <<>>
    /\ admin = ADMIN
    /\ minters = {MINTER}
    /\ totalSupply = 2 * INITIAL_BALANCE

\* C17: every entry appended to the metrics history records, for each agent,
\* the wealth derived from that agent's ledger balance at the moment of
\* collection (read again from the ledger, never cached), so the snapshot of
\* a tick reflects all the transfers of that tick; earlier entries are never
\* modified.
C17_HistoryFromLedger ==
    [][history' # history =>
          /\ Len(history') = Len(history) + 1
          /\ SubSeq(history', 1, Len(history)) = history
          /\ balanceOf' = balanceOf
          /\ LET entry == history'[Len(history')]
             IN  /\ DOMAIN entry.Wealth = Agents
                 /\ \A a \in Agents :
                       entry.Wealth[a] = Rat(balanceOf[a], WEI_PER_TOKEN)]_vars

\* C17 witness: the entry of the first tick records one agent with two tokens
\* and the other with none, next to an untouched first entry of one token each
C17_Witness ==
    /\ num_agents = 2
    /\ Len(history) >= 2
    /\ \A a \in Agents : history[1].Wealth[a] = RInt(1)
    /\ \E a, b \in Agents :
          /\ history[2].Wealth[a] = RInt(2)
          /\ history[2].Wealth[b] = RInt(0)
    /\ history[2].step = 1

\* the constructor has returned a model
Constructed ==
    \/ pc \in {"idle", "run", "tick", "give"}
    \/ pc = "error" /\ err \in {"IndexError", "ValueError", "LedgerError"}

\* C18: the history receives one entry at the end of model construction and
\* exactly one more per completed tick: after n completed ticks it holds
\* n + 1 entries (entry k filed under step k - 1).
C18_HistoryLength ==
    /\ pc \in {"deploy", "addMinter", "create"} => (history = <<>> /\ steps = 0)
    /\ Constructed =>
          /\ Len(history) = steps + 1
          /\ \A k \in 1 .. Len(history) : history[k].step = k - 1
    /\ pc \in {"tick", "give"} => steps = steps0 + iter - 1
    /\ pc = "run" => steps = steps0 + iter

\* C18 witness: a run of two ticks has returned and the history holds three
\* entries
C18_Witness ==
    /\ pc = "idle"
    /\ steps = 2
    /\ Len(history) = 3

\* C19: because INITIAL_BALANCE = XFER_AMOUNT, every agent balance is an
\* integer multiple of XFER_AMOUNT in every reachable state; the branch for
\* 0 < balance < XFER_AMOUNT is never taken and every transfer moves exactly
\* XFER_AMOUNT.
C19_WholeTokens ==
    /\ \A w \in Wallets : balanceOf[w] % XFER_AMOUNT = 0
    /\ pc = "give" => ~(0 < balanceOf[cur] /\ balanceOf[cur] < XFER_AMOUNT)
    /\ xfer # NoXfer =>
          /\ xfer.balance >= XFER_AMOUNT
          /\ xfer.amount = XFER_AMOUNT

\* C19 witness: after a transfer of exactly XFER_AMOUNT the receiver holds
\* two whole tokens and the sender none
C19_Witness ==
    /\ xfer # NoXfer
    /\ xfer.amount = XFER_AMOUNT
    /\ xfer.balance = XFER_AMOUNT
    /\ balanceOf[xfer.from] = 0
    /\ balanceOf[xfer.to] = 2 * XFER_AMOUNT

\* C20: for num_agents >= 1 the denominator N * sum(wealths) of compute_gini
\* is strictly positive at every collection (at construction and after every
\* tick), so the unguarded division never divides by zero on a reachable
\* state.
C20_PositiveDenominator ==
    num_agents >= 1 =>
        /\ err # "ZeroDivisionError"
        /\ MintingDone =>
              /\ num_agents * TotalBalance > 0
              /\ ~RIsZero(RMul(RInt(num_agents),
                               sum(agent_wealths(schedule, balanceOf))))

\* C20 witness: a single agent has been collected at construction and again
\* after a tick
C20_Witness ==
    /\ num_agents = 1
    /\ pc = "run"
    /\ steps = 1
    /\ Len(history) = 2
    /\ err = "none"

====
